---------------------------- MODULE Spec2Model ----------------------------
(***************************************************************************)
(* Model of src/camera/device_enum.rs: camera enumeration through the two  *)
(* Windows backends (Media Foundation, DirectShow), the merge of their     *)
(* outputs, the virtual-camera classifier and the three-valued verdict.    *)
(*                                                                         *)
(* A Rust String is a sequence of one-character strings.  Option<T> is a   *)
(* sequence of length at most one: None is <<>>, Some(x) is <<x>>.         *)
(*                                                                         *)
(* Three specifications share the variables:                               *)
(*   Spec / FairSpec  one call of detect_cameras, API call by API call     *)
(*   SpecExtract      parse_vid_pid applied to bounded device paths        *)
(*   SpecClassify     is_virtual_camera applied to bounded device records  *)
(***************************************************************************)
EXTENDS Integers, Sequences, FiniteSets, TLC

VARIABLES
    platform,            \* cfg(windows) / cfg(not(windows))
    pc,                  \* position inside detect_cameras
    com,                 \* outstanding CoInitializeEx on this thread
    mf,                  \* outstanding MFStartup in this process
    before,              \* [com, mf] outstanding when detect_cameras was entered
    mfCalls,             \* init/teardown calls made by enumerate_media_foundation_devices
    dsCalls,             \* init/teardown calls made by enumerate_directshow_devices
    mfErr,               \* the API call that failed in the Media Foundation backend
    dsErr,               \* the API calls that failed in the DirectShow backend
    devices,             \* Vec returned by enumerate_media_foundation_devices
    directshow_devices,  \* Vec returned by enumerate_directshow_devices
    inventory,           \* Vec returned by enumerate_devices
    count,               \* count written by MFEnumDeviceSources
    index,               \* loop index of the Media Foundation loop
    stream,              \* monikers the OS enumerator still holds (Unending: no end)
    result,              \* value returned by detect_cameras
    branch,              \* the return statement of detect_cameras that was taken
    device_path,         \* SpecExtract: argument of parse_vid_pid
    vid_pid,             \* SpecExtract: value returned by parse_vid_pid
    device,              \* SpecClassify: argument of is_virtual_camera
    is_virtual           \* SpecClassify: value returned by is_virtual_camera

vars == <<platform, pc, com, mf, before, mfCalls, dsCalls, mfErr, dsErr, devices,
          directshow_devices, inventory, count, index, stream, result, branch,
          device_path, vid_pid, device, is_virtual>>

-----------------------------------------------------------------------------
(* Bounds *)

\* most records one backend reports in one call
MaxDevices == 2
\* most initializations of COM and of Media Foundation the host already holds at entry
MaxOutstanding == 1
\* most characters that follow a token in a generated device path
MaxTail == 4

-----------------------------------------------------------------------------
(* Option and String *)

None == <<>>
Some(x) == <<x>>
IsSome(o) == Len(o) = 1
Unwrap(o) == o[1]

\* the elements of an array: what .iter() visits
Range(s) == {s[i] : i \in 1..Len(s)}

\* letters with a lower-case form; "É" stands for the non-ASCII letters
UpperChars == <<"A", "B", "C", "D", "E", "F", "G", "H", "I", "J", "K", "L", "M",
                "N", "O", "P", "Q", "R", "S", "T", "U", "V", "W", "X", "Y", "Z", "É">>
LowerChars == <<"a", "b", "c", "d", "e", "f", "g", "h", "i", "j", "k", "l", "m",
                "n", "o", "p", "q", "r", "s", "t", "u", "v", "w", "x", "y", "z", "é">>

\* the lower-case form of every upper-case letter
LowerOf ==
    [c \in {UpperChars[i] : i \in 1..Len(UpperChars)} |->
        LowerChars[CHOOSE i \in 1..Len(UpperChars) : UpperChars[i] = c]]

\* char::to_lowercase
char_to_lowercase(c) == IF c \in DOMAIN LowerOf THEN LowerOf[c] ELSE c

\* str::to_lowercase
to_lowercase(s) == [i \in 1..Len(s) |-> char_to_lowercase(s[i])]

\* char::len_utf8: bytes of one character in a String
len_utf8(c) == IF c \in {"é", "É"} THEN 2 ELSE 1

RECURSIVE byte_len(_)
\* String::len: the length in bytes
byte_len(s) == IF s = <<>> THEN 0 ELSE len_utf8(Head(s)) + byte_len(Tail(s))

\* does needle start at 0-based character offset i of haystack
MatchAt(haystack, needle, i) ==
    /\ i + Len(needle) <= Len(haystack)
    /\ \A j \in 1..Len(needle) : haystack[i + j] = needle[j]

\* str::contains
contains(haystack, needle) ==
    \E i \in 0..(Len(haystack) - Len(needle)) : MatchAt(haystack, needle, i)

\* str::find: Some(offset of the first occurrence), as a character offset
find(haystack, needle) ==
    IF contains(haystack, needle)
    THEN Some(CHOOSE i \in 0..(Len(haystack) - Len(needle)) :
                /\ MatchAt(haystack, needle, i)
                /\ \A k \in 0..(i - 1) : ~MatchAt(haystack, needle, k))
    ELSE None

\* Iterator::take(n) over chars(), collected
take(s, n) == SubSeq(s, 1, IF Len(s) < n THEN Len(s) ELSE n)

\* &source[start..]
slice_from(s, start) == SubSeq(s, start + 1, Len(s))

-----------------------------------------------------------------------------
(* Literals of the source *)

\* the tokens parse_vid_pid searches for, and the placeholder name of both backends
tok_vid == <<"v", "i", "d", "_">>
tok_pid == <<"p", "i", "d", "_">>
unknown_camera == <<"U", "n", "k", "n", "o", "w", "n", " ", "C", "a", "m", "e", "r", "a">>

name_blacklist ==
    << <<"v", "i", "r", "t", "u", "a", "l">>,
       <<"o", "b", "s">>,
       <<"m", "a", "n", "y", "c", "a", "m">>,
       <<"s", "n", "a", "p", " ", "c", "a", "m", "e", "r", "a">>,
       <<"x", "s", "p", "l", "i", "t">>,
       <<"m", "m", "h", "m", "m">>,
       <<"d", "r", "o", "i", "d", "c", "a", "m">>,
       <<"i", "r", "i", "u", "n">>,
       <<"c", "o", "n", "t", "a", "c", "a", "m">>,
       <<"s", "t", "r", "e", "a", "m", "l", "a", "b", "s">>,
       <<"c", "a", "m", "s", "i", "p">> >>

clsid_blacklist ==
    << <<"{", "8", "6", "0", "b", "b", "3", "1", "0", "-", "5", "d", "0", "1", "-", "1", "1",
           "d", "0", "-", "b", "d", "3", "b", "-", "0", "0", "a", "0", "c", "9", "1", "1", "c",
           "e", "8", "6", "}">>,
       <<"{", "e", "5", "3", "2", "3", "7", "7", "7", "-", "f", "9", "7", "6", "-", "4", "f",
           "5", "b", "-", "9", "b", "5", "5", "-", "b", "9", "4", "6", "9", "9", "c", "4", "6",
           "e", "4", "4", "}">> >>

vid_pid_blacklist ==
    << <<<<"0", "b", "d", "a">>, <<"5", "8", "f", "4">>>>,
       <<<<"0", "c", "4", "5">>, <<"6", "3", "6", "6">>>>,
       <<<<"2", "b", "7", "e">>, <<"f", "1", "3", "a">>>>,
       <<<<"0", "5", "a", "3">>, <<"9", "3", "3", "1">>>> >>

-----------------------------------------------------------------------------
(* Sample strings the operating system reports *)

n_brio == <<"L", "o", "g", "i", "t", "e", "c", "h", " ", "B", "R", "I", "O">>
n_obs_mixed ==
    <<"O", "B", "S", " ", "V", "i", "r", "t", "u", "a", "l", " ", "C", "a", "m", "e", "r",
      "a">>
n_obs_lower ==
    <<"o", "b", "s", " ", "v", "i", "r", "t", "u", "a", "l", " ", "c", "a", "m", "e", "r",
      "a">>
n_manycam ==
    <<"M", "y", " ", "M", "a", "n", "y", "C", "a", "m", " ", "D", "e", "v", "i", "c", "e">>
n_cam_o == <<"C", "a", "m", " ", "O">>
n_web == <<"W", "e", "b">>
n_snap == <<"H", "D", " ", "S", "n", "a", "p">>
m_microsoft == <<"M", "i", "c", "r", "o", "s", "o", "f", "t">>
m_camera_inc == <<" ", "C", "a", "m", "e", "r", "a", " ", "I", "n", "c">>
m_cam == <<"c", "a", "m">>
d_usbvideo == <<"u", "s", "b", "v", "i", "d", "e", "o", ".", "s", "y", "s">>
d_sip == <<"S", "I", "P">>
d_b == <<"B">>
p_obs_hw ==
    <<"u", "s", "b", "#", "V", "I", "D", "_", "0", "B", "D", "A", "&", "P", "I", "D", "_",
      "5", "8", "F", "4", "#", "6">>
p_vendor_only ==
    <<"u", "s", "b", "#", "v", "i", "d", "_", "0", "b", "d", "a", "&", "p", "i", "d", "_",
      "0", "0", "0", "0", "#", "6">>
p_short_pid ==
    <<"u", "s", "b", "#", "v", "i", "d", "_", "0", "4", "f", "2", "&", "p", "i", "d", "_",
      "b", "5">>
p_brio ==
    <<"u", "s", "b", "#", "v", "i", "d", "_", "0", "4", "6", "d", "&", "p", "i", "d", "_",
      "0", "8", "5", "e", "#", "7">>
p_slink == <<"S", "-", "l", "i", "n", "k">>
c_category_upper ==
    <<"{", "8", "6", "0", "B", "B", "3", "1", "0", "-", "5", "D", "0", "1", "-", "1", "1",
      "D", "0", "-", "B", "D", "3", "B", "-", "0", "0", "A", "0", "C", "9", "1", "1", "C",
      "E", "8", "6", "}">>
c_grabber_prefixed ==
    <<"c", "l", "s", "i", "d", ":", "{", "e", "5", "3", "2", "3", "7", "7", "7", "-", "f",
      "9", "7", "6", "-", "4", "f", "5", "b", "-", "9", "b", "5", "5", "-", "b", "9", "4",
      "6", "9", "9", "c", "4", "6", "e", "4", "4", "}">>
c_other ==
    <<"{", "1", "7", "C", "C", "A", "7", "1", "B", "-", "E", "C", "D", "7", "-", "1", "1",
      "D", "0", "-", "B", "9", "0", "8", "-", "0", "0", "A", "0", "C", "9", "2", "2", "3",
      "1", "9", "6", "}">>
i_0bda_upper == <<"0", "B", "D", "A">>
i_0c45 == <<"0", "c", "4", "5">>
i_1234 == <<"1", "2", "3", "4">>
i_58f4 == <<"5", "8", "f", "4">>
i_6366 == <<"6", "3", "6", "6">>
i_0000 == <<"0", "0", "0", "0">>

-----------------------------------------------------------------------------
(* The pure functions of the source *)

\* struct CameraDevice
CameraDevice(name, manufacturer, path, driver, vid, pid, clsid) ==
    [name |-> name, manufacturer |-> manufacturer, device_path |-> path,
     driver |-> driver, vid |-> vid, pid |-> pid, clsid |-> clsid]

\* fn extract_segment: String::len counts bytes, chars().take(4) counts characters
extract_segment(source, token) ==
    LET found == find(source, token)
    IN  IF found = None
        THEN None
        ELSE LET start == Unwrap(found) + Len(token)
                 segment == take(slice_from(source, start), 4)
             IN  IF byte_len(segment) = 4 THEN Some(segment) ELSE None

\* parse_vid_pid that answers an absent path with a default pair
parse_vid_pid_default(path) ==
    IF path = None
    THEN <<Some(i_0000), Some(i_0000)>>
    ELSE LET device_path_lower == to_lowercase(Unwrap(path))
         IN  <<extract_segment(device_path_lower, tok_vid),
               extract_segment(device_path_lower, tok_pid)>>

\* fn parse_vid_pid
parse_vid_pid(path) ==
    IF path = None
    THEN <<None, None>>
    ELSE LET device_path_lower == to_lowercase(Unwrap(path))
         IN  <<extract_segment(device_path_lower, tok_vid),
               extract_segment(device_path_lower, tok_pid)>>

\* the haystack of is_virtual_camera
haystack_of(d) ==
    to_lowercase(d.name)
        \o (IF IsSome(d.manufacturer) THEN to_lowercase(Unwrap(d.manufacturer)) ELSE <<>>)
        \o (IF IsSome(d.driver) THEN to_lowercase(Unwrap(d.driver)) ELSE <<>>)
        \o (IF IsSome(d.device_path) THEN to_lowercase(Unwrap(d.device_path)) ELSE <<>>)

\* layer 1 of is_virtual_camera: the haystack, built once, against name_blacklist
name_layer(d) ==
    \E haystack \in {haystack_of(d)} :
        \E needle \in Range(name_blacklist) : contains(haystack, needle)

\* layer 2 of is_virtual_camera: the lower-cased class identifier against
\* clsid_blacklist
clsid_layer(d) ==
    /\ IsSome(d.clsid)
    /\ \E clsid_lower \in {to_lowercase(Unwrap(d.clsid))} :
           \E needle \in Range(clsid_blacklist) : contains(clsid_lower, needle)

\* layer 3 with the vendor id and the product id each matched on its own
vid_pid_layer_per_field(d) ==
    /\ IsSome(d.vid)
    /\ IsSome(d.pid)
    /\ \E vid_lower \in {to_lowercase(Unwrap(d.vid))},
          pid_lower \in {to_lowercase(Unwrap(d.pid))} :
           /\ \E pair \in Range(vid_pid_blacklist) : pair[1] = vid_lower
           /\ \E pair \in Range(vid_pid_blacklist) : pair[2] = pid_lower

\* layer 3 of is_virtual_camera: the lower-cased pair against vid_pid_blacklist
vid_pid_layer(d) ==
    /\ IsSome(d.vid)
    /\ IsSome(d.pid)
    /\ \E vid_lower \in {to_lowercase(Unwrap(d.vid))},
          pid_lower \in {to_lowercase(Unwrap(d.pid))} :
           \E pair \in Range(vid_pid_blacklist) : pair[1] = vid_lower /\ pair[2] = pid_lower

\* fn is_virtual_camera: the three layers in order, returning at the first match
is_virtual_camera(d) ==
    IF name_layer(d) THEN TRUE
    ELSE IF clsid_layer(d) THEN TRUE
    ELSE IF vid_pid_layer(d) THEN TRUE
    ELSE FALSE

\* enum DetectionResult
DetectionResult == {"RealCamera", "VirtualCamera", "NoCamera"}

RECURSIVE classify_loop_both_real(_, _, _)
\* the for loop of detect_cameras with has_real set in both arms
classify_loop_both_real(devs, has_real, has_virtual) ==
    IF devs = <<>>
    THEN <<has_real, has_virtual>>
    ELSE IF is_virtual_camera(Head(devs))
         THEN classify_loop_both_real(Tail(devs), TRUE, TRUE)
         ELSE classify_loop_both_real(Tail(devs), TRUE, has_virtual)

RECURSIVE classify_loop(_, _, _)
\* the for loop of detect_cameras: <<has_real, has_virtual>> after the last device
classify_loop(devs, has_real, has_virtual) ==
    IF devs = <<>>
    THEN <<has_real, has_virtual>>
    ELSE IF is_virtual_camera(Head(devs))
         THEN classify_loop(Tail(devs), has_real, TRUE)
         ELSE classify_loop(Tail(devs), TRUE, has_virtual)

\* the decision of detect_cameras with the two flags tested in the other order
decide_virtual_first(devs) ==
    IF devs = <<>>
    THEN [result |-> "NoCamera", branch |-> "is_empty"]
    ELSE LET flags == classify_loop(devs, FALSE, FALSE)
         IN  IF flags[2] THEN [result |-> "VirtualCamera", branch |-> "has_virtual"]
             ELSE IF flags[1] THEN [result |-> "RealCamera", branch |-> "has_real"]
             ELSE [result |-> "NoCamera", branch |-> "else"]

\* the decision of detect_cameras whose loop never sets has_virtual
decide_no_virtual_flag(devs) ==
    IF devs = <<>>
    THEN [result |-> "NoCamera", branch |-> "is_empty"]
    ELSE LET flags == classify_loop(devs, FALSE, FALSE)
         IN  IF flags[1] THEN [result |-> "RealCamera", branch |-> "has_real"]
             ELSE [result |-> "NoCamera", branch |-> "else"]

\* detect_cameras after enumerate_devices returned devs: the value returned and
\* the return statement that produced it
decide(devs) ==
    IF devs = <<>>
    THEN [result |-> "NoCamera", branch |-> "is_empty"]
    ELSE LET flags == classify_loop(devs, FALSE, FALSE)
         IN  IF flags[1] THEN [result |-> "RealCamera", branch |-> "has_real"]
             ELSE IF flags[2] THEN [result |-> "VirtualCamera", branch |-> "has_virtual"]
             ELSE [result |-> "NoCamera", branch |-> "else"]

\* enumerate_windows_devices with the two backends appended in the other order
append_reversed(mf_devices, ds_devices) == ds_devices \o mf_devices

\* Vec::append in enumerate_windows_devices
append(mf_devices, ds_devices) == mf_devices \o ds_devices

-----------------------------------------------------------------------------
(* What the operating system can report *)

\* stream value of an enumerator whose Next never fails to hand out a moniker
Unending == -1

\* IMFActivate objects: the strings GetAllocatedString yields (None: the call fails
\* or yields a null pointer)
MFActivates ==
    { [friendly |-> Some(n_brio), link |-> Some(p_brio)],
      [friendly |-> Some(n_obs_mixed), link |-> None],
      [friendly |-> None, link |-> Some(p_short_pid)] }

\* IPropertyBag objects: the strings IPropertyBag::Read yields (None: the call fails,
\* the variant is no BSTR, or the BSTR is null)
DSPropertyBags ==
    { [FriendlyName |-> Some(n_brio), Manufacturer |-> None,
       DevicePath |-> Some(p_brio), Driver |-> None, CLSID |-> None],
      [FriendlyName |-> None, Manufacturer |-> Some(m_microsoft),
       DevicePath |-> Some(p_obs_hw), Driver |-> Some(d_usbvideo), CLSID |-> Some(c_other)] }

\* a moniker slot that yields no record
SkippedMonikers == {"null moniker", "BindToStorage", "null property bag"}

\* the record enumerate_media_foundation_devices builds from one IMFActivate
mf_device(activate) ==
    LET name == IF IsSome(activate.friendly) THEN Unwrap(activate.friendly)
                ELSE unknown_camera
        ids == parse_vid_pid(activate.link)
    IN  CameraDevice(name, None, activate.link, None, ids[1], ids[2], None)

\* the record enumerate_directshow_devices builds from one IPropertyBag
ds_device(bag) ==
    LET name == IF IsSome(bag.FriendlyName) THEN Unwrap(bag.FriendlyName)
                ELSE unknown_camera
        ids == parse_vid_pid(bag.DevicePath)
    IN  CameraDevice(name, bag.Manufacturer, bag.DevicePath, bag.Driver,
                     ids[1], ids[2], bag.CLSID)

-----------------------------------------------------------------------------
(* One call of detect_cameras *)

NoDevice == CameraDevice(<<>>, None, None, None, None, None, None)

\* the variables of SpecExtract and SpecClassify, unused here
PureIdle ==
    /\ device_path = None
    /\ vid_pid = <<None, None>>
    /\ device = NoDevice
    /\ is_virtual = FALSE

Init ==
    /\ platform \in {"windows", "other"}
    /\ pc = "enumerate_devices"
    /\ \E n \in 0..MaxOutstanding : before = [com |-> n, mf |-> n]
    /\ com = before.com
    /\ mf = before.mf
    /\ mfCalls = <<>>
    /\ dsCalls = <<>>
    /\ mfErr = {}
    /\ dsErr = {}
    /\ devices = <<>>
    /\ directshow_devices = <<>>
    /\ inventory = <<>>
    /\ count = 0
    /\ index = 0
    /\ stream = 0
    /\ result = "pending"
    /\ branch = "none"
    /\ PureIdle

\* fn enumerate_devices: the cfg dispatch
enumerate_devices ==
    /\ pc = "enumerate_devices"
    /\ IF platform = "windows"
       THEN /\ pc' = "mf_CoInitializeEx"
            /\ UNCHANGED inventory
       ELSE /\ inventory' = <<>>
            /\ pc' = "detect"
    /\ UNCHANGED <<platform, com, mf, before, mfCalls, dsCalls, mfErr, dsErr, devices,
                   directshow_devices, count, index, stream, result, branch,
                   device_path, vid_pid, device, is_virtual>>

\* enumerate_media_foundation_devices: CoInitializeEx
MF_CoInitializeEx ==
    /\ pc = "mf_CoInitializeEx"
    /\ \E ok \in BOOLEAN :
          IF ok
          THEN /\ com' = com + 1
               /\ mfCalls' = Append(mfCalls, "CoInitializeEx ok")
               /\ pc' = "mf_MFStartup"
               /\ UNCHANGED mfErr
          ELSE /\ mfCalls' = Append(mfCalls, "CoInitializeEx err")
               /\ mfErr' = mfErr \cup {"CoInitializeEx"}
               /\ pc' = "ds_CoInitializeEx"
               /\ UNCHANGED com
    /\ UNCHANGED <<platform, mf, before, dsCalls, dsErr, devices, directshow_devices,
                   inventory, count, index, stream, result, branch,
                   device_path, vid_pid, device, is_virtual>>

\* MFStartup whose failure path returns without CoUninitialize
MF_MFStartup_leak ==
    /\ pc = "mf_MFStartup"
    /\ \E ok \in BOOLEAN :
          IF ok
          THEN /\ mf' = mf + 1
               /\ mfCalls' = Append(mfCalls, "MFStartup ok")
               /\ pc' = "mf_MFCreateAttributes"
               /\ UNCHANGED <<com, mfErr>>
          ELSE /\ mfCalls' = Append(mfCalls, "MFStartup err")
               /\ mfErr' = mfErr \cup {"MFStartup"}
               /\ pc' = "ds_CoInitializeEx"
               /\ UNCHANGED <<com, mf>>
    /\ UNCHANGED <<platform, before, dsCalls, dsErr, devices, directshow_devices,
                   inventory, count, index, stream, result, branch,
                   device_path, vid_pid, device, is_virtual>>

\* enumerate_media_foundation_devices: MFStartup
MF_MFStartup ==
    /\ pc = "mf_MFStartup"
    /\ \E ok \in BOOLEAN :
          IF ok
          THEN /\ mf' = mf + 1
               /\ mfCalls' = Append(mfCalls, "MFStartup ok")
               /\ pc' = "mf_MFCreateAttributes"
               /\ UNCHANGED <<com, mfErr>>
          ELSE /\ mfCalls' = mfCalls \o <<"MFStartup err", "CoUninitialize">>
               /\ com' = com - 1
               /\ mfErr' = mfErr \cup {"MFStartup"}
               /\ pc' = "ds_CoInitializeEx"
               /\ UNCHANGED mf
    /\ UNCHANGED <<platform, before, dsCalls, dsErr, devices, directshow_devices,
                   inventory, count, index, stream, result, branch,
                   device_path, vid_pid, device, is_virtual>>

\* the early return shared by MFCreateAttributes and SetGUID
MF_SetupCall(at, api, next) ==
    /\ pc = at
    /\ \E ok \in BOOLEAN :
          IF ok
          THEN /\ pc' = next
               /\ UNCHANGED <<com, mf, mfCalls, mfErr>>
          ELSE /\ mfCalls' = mfCalls \o <<"MFShutdown", "CoUninitialize">>
               /\ mf' = mf - 1
               /\ com' = com - 1
               /\ mfErr' = mfErr \cup {api}
               /\ pc' = "ds_CoInitializeEx"
    /\ UNCHANGED <<platform, before, dsCalls, dsErr, devices, directshow_devices,
                   inventory, count, index, stream, result, branch,
                   device_path, vid_pid, device, is_virtual>>

\* enumerate_media_foundation_devices: MFCreateAttributes
MF_MFCreateAttributes ==
    MF_SetupCall("mf_MFCreateAttributes", "MFCreateAttributes", "mf_SetGUID")

\* enumerate_media_foundation_devices: IMFAttributes::SetGUID
MF_SetGUID ==
    MF_SetupCall("mf_SetGUID", "SetGUID", "mf_MFEnumDeviceSources")

\* enumerate_media_foundation_devices: MFEnumDeviceSources; a failed call and a
\* null array both skip the loop
MF_MFEnumDeviceSources ==
    /\ pc = "mf_MFEnumDeviceSources"
    /\ \/ /\ mfErr' = mfErr \cup {"MFEnumDeviceSources"}
          /\ count' = 0
       \/ /\ count' \in 0..MaxDevices
          /\ UNCHANGED mfErr
    /\ index' = 0
    /\ pc' = "mf_loop"
    /\ UNCHANGED <<platform, com, mf, before, mfCalls, dsCalls, dsErr, devices,
                   directshow_devices, inventory, stream, result, branch,
                   device_path, vid_pid, device, is_virtual>>

\* enumerate_media_foundation_devices: one pass of for index in 0..count
MF_Loop ==
    /\ pc = "mf_loop"
    /\ index < count
    /\ \/ UNCHANGED devices
       \/ \E activate \in MFActivates : devices' = Append(devices, mf_device(activate))
    /\ index' = index + 1
    /\ UNCHANGED <<platform, pc, com, mf, before, mfCalls, dsCalls, mfErr, dsErr,
                   directshow_devices, inventory, count, stream, result, branch,
                   device_path, vid_pid, device, is_virtual>>

\* enumerate_media_foundation_devices: MFShutdown, CoUninitialize, return
MF_Teardown ==
    /\ pc = "mf_loop"
    /\ index = count
    /\ mfCalls' = mfCalls \o <<"MFShutdown", "CoUninitialize">>
    /\ mf' = mf - 1
    /\ com' = com - 1
    /\ pc' = "ds_CoInitializeEx"
    /\ UNCHANGED <<platform, before, dsCalls, mfErr, dsErr, devices, directshow_devices,
                   inventory, count, index, stream, result, branch,
                   device_path, vid_pid, device, is_virtual>>

\* enumerate_directshow_devices: CoInitializeEx
DS_CoInitializeEx ==
    /\ pc = "ds_CoInitializeEx"
    /\ \E ok \in BOOLEAN :
          IF ok
          THEN /\ com' = com + 1
               /\ dsCalls' = Append(dsCalls, "CoInitializeEx ok")
               /\ pc' = "ds_CoCreateInstance"
               /\ UNCHANGED dsErr
          ELSE /\ dsCalls' = Append(dsCalls, "CoInitializeEx err")
               /\ dsErr' = dsErr \cup {"CoInitializeEx"}
               /\ pc' = "append"
               /\ UNCHANGED com
    /\ UNCHANGED <<platform, mf, before, mfCalls, mfErr, devices, directshow_devices,
                   inventory, count, index, stream, result, branch,
                   device_path, vid_pid, device, is_virtual>>

\* enumerate_directshow_devices: CoCreateInstance(CLSID_SystemDeviceEnum)
DS_CoCreateInstance ==
    /\ pc = "ds_CoCreateInstance"
    /\ \E ok \in BOOLEAN :
          IF ok
          THEN /\ pc' = "ds_CreateClassEnumerator"
               /\ UNCHANGED <<com, dsCalls, dsErr>>
          ELSE /\ dsCalls' = Append(dsCalls, "CoUninitialize")
               /\ com' = com - 1
               /\ dsErr' = dsErr \cup {"CoCreateInstance"}
               /\ pc' = "append"
    /\ UNCHANGED <<platform, mf, before, mfCalls, mfErr, devices, directshow_devices,
                   inventory, count, index, stream, result, branch,
                   device_path, vid_pid, device, is_virtual>>

\* enumerate_directshow_devices: CreateClassEnumerator; an error and a null
\* enumerator (no device of the category) both return at once
DS_CreateClassEnumerator ==
    /\ pc = "ds_CreateClassEnumerator"
    /\ \/ /\ dsErr' = dsErr \cup {"CreateClassEnumerator"}
          /\ dsCalls' = Append(dsCalls, "CoUninitialize")
          /\ com' = com - 1
          /\ pc' = "append"
          /\ UNCHANGED stream
       \/ /\ dsCalls' = Append(dsCalls, "CoUninitialize")
          /\ com' = com - 1
          /\ pc' = "append"
          /\ UNCHANGED <<dsErr, stream>>
       \/ /\ stream' \in (0..MaxDevices) \cup {Unending}
          /\ pc' = "ds_loop"
          /\ UNCHANGED <<com, dsCalls, dsErr>>
    /\ UNCHANGED <<platform, mf, before, mfCalls, mfErr, devices, directshow_devices,
                   inventory, count, index, result, branch,
                   device_path, vid_pid, device, is_virtual>>

\* the stream after IEnumMoniker::Next handed out one moniker
stream_after_fetch == IF stream = Unending THEN Unending ELSE stream - 1

\* IEnumMoniker::Next in a loop that does not test fetched == 0: the empty slot
\* goes on to the let-else, which continues
DS_Next_no_end_test ==
    /\ pc = "ds_loop"
    /\ \/ /\ dsErr' = dsErr \cup {"Next"}
          /\ pc' = "ds_teardown"
          /\ UNCHANGED stream
       \/ /\ stream = 0
          /\ pc' = "ds_moniker"
          /\ UNCHANGED <<stream, dsErr>>
       \/ /\ stream # 0
          /\ stream' = stream_after_fetch
          /\ pc' = "ds_moniker"
          /\ UNCHANGED dsErr
    /\ UNCHANGED <<platform, com, mf, before, mfCalls, dsCalls, mfErr, devices,
                   directshow_devices, inventory, count, index, result, branch,
                   device_path, vid_pid, device, is_virtual>>

\* enumerate_directshow_devices: the head of the loop, IEnumMoniker::Next;
\* a failed call and fetched == 0 both break
DS_Next ==
    /\ pc = "ds_loop"
    /\ \/ /\ dsErr' = dsErr \cup {"Next"}
          /\ pc' = "ds_teardown"
          /\ UNCHANGED stream
       \/ /\ stream = 0
          /\ pc' = "ds_teardown"
          /\ UNCHANGED <<stream, dsErr>>
       \/ /\ stream # 0
          /\ stream' = stream_after_fetch
          /\ pc' = "ds_moniker"
          /\ UNCHANGED dsErr
    /\ UNCHANGED <<platform, com, mf, before, mfCalls, dsCalls, mfErr, devices,
                   directshow_devices, inventory, count, index, result, branch,
                   device_path, vid_pid, device, is_virtual>>

\* enumerate_directshow_devices: the rest of the loop body; a null moniker, a failed
\* BindToStorage and a null property bag continue, anything else pushes the record
DS_Moniker ==
    /\ pc = "ds_moniker"
    /\ \/ /\ \E skipped \in SkippedMonikers :
                dsErr' = IF skipped = "BindToStorage"
                         THEN dsErr \cup {"BindToStorage"} ELSE dsErr
          /\ UNCHANGED directshow_devices
       \/ /\ Len(directshow_devices) < MaxDevices
          /\ \E bag \in DSPropertyBags :
                directshow_devices' = Append(directshow_devices, ds_device(bag))
          /\ UNCHANGED dsErr
    /\ pc' = "ds_loop"
    /\ UNCHANGED <<platform, com, mf, before, mfCalls, dsCalls, mfErr, devices,
                   inventory, count, index, stream, result, branch,
                   device_path, vid_pid, device, is_virtual>>

\* enumerate_directshow_devices: CoUninitialize after the loop, return
DS_Teardown ==
    /\ pc = "ds_teardown"
    /\ dsCalls' = Append(dsCalls, "CoUninitialize")
    /\ com' = com - 1
    /\ pc' = "append"
    /\ UNCHANGED <<platform, mf, before, mfCalls, mfErr, dsErr, devices,
                   directshow_devices, inventory, count, index, stream, result, branch,
                   device_path, vid_pid, device, is_virtual>>

\* fn enumerate_windows_devices: devices.append(&mut directshow_devices)
enumerate_windows_devices ==
    /\ pc = "append"
    /\ inventory' = append(devices, directshow_devices)
    /\ pc' = "detect"
    /\ UNCHANGED <<platform, com, mf, before, mfCalls, dsCalls, mfErr, dsErr, devices,
                   directshow_devices, count, index, stream, result, branch,
                   device_path, vid_pid, device, is_virtual>>

\* fn detect_cameras, from the is_empty test to the return
detect_cameras ==
    /\ pc = "detect"
    /\ LET returned == decide(inventory)
       IN  /\ result' = returned.result
           /\ branch' = returned.branch
    /\ pc' = "done"
    /\ UNCHANGED <<platform, com, mf, before, mfCalls, dsCalls, mfErr, dsErr, devices,
                   directshow_devices, inventory, count, index, stream,
                   device_path, vid_pid, device, is_virtual>>

Next ==
    \/ enumerate_devices
    \/ MF_CoInitializeEx
    \/ MF_MFStartup
    \/ MF_MFCreateAttributes
    \/ MF_SetGUID
    \/ MF_MFEnumDeviceSources
    \/ MF_Loop
    \/ MF_Teardown
    \/ DS_CoInitializeEx
    \/ DS_CoCreateInstance
    \/ DS_CreateClassEnumerator
    \/ DS_Next
    \/ DS_Moniker
    \/ DS_Teardown
    \/ enumerate_windows_devices
    \/ detect_cameras

Spec == Init /\ [][Next]_vars

\* a call made by a host that holds no initialization of its own
InitFair == Init /\ before = [com |-> 0, mf |-> 0]

\* detect_cameras runs on the calling thread: a step that can be taken is taken
FairSpec == InitFair /\ [][Next]_vars /\ WF_vars(Next)

-----------------------------------------------------------------------------
(* Properties of one call of detect_cameras *)

\* the backend calls that have returned
MFReturned == pc \notin {"enumerate_devices", "mf_CoInitializeEx", "mf_MFStartup",
                         "mf_MFCreateAttributes", "mf_SetGUID",
                         "mf_MFEnumDeviceSources", "mf_loop"}
DSReturned == pc \in {"append", "detect", "done"}
Merged == pc \in {"detect", "done"}
Returned == pc = "done"

Real(d) == ~is_virtual_camera(d)
Indices(s) == 1..Len(s)

\* C1 (real-dominance): when the inventory returned by enumerate_devices holds at
\* least one record that is_virtual_camera rejects, detect_cameras returns
\* RealCamera, however many records are virtual and wherever the real one sits.
C1_RealDominance ==
    Returned =>
        ((\E i \in Indices(inventory) : Real(inventory[i])) => result = "RealCamera")

\* a call that returned over an inventory of two virtual records followed by a real
\* one and a further virtual one
C1_Witness ==
    /\ Returned
    /\ Len(inventory) = 4
    /\ ~Real(inventory[1])
    /\ ~Real(inventory[2])
    /\ Real(inventory[3])
    /\ ~Real(inventory[4])
    /\ result = "RealCamera"

\* C2 (all-virtual law): over a non-empty inventory whose records are all
\* classified virtual, detect_cameras returns VirtualCamera.
C2_AllVirtual ==
    Returned =>
        ((/\ inventory # <<>>
          /\ \A i \in Indices(inventory) : ~Real(inventory[i])) => result = "VirtualCamera")

\* a call that returned over three virtual records coming from both backends
C2_Witness ==
    /\ Returned
    /\ Len(inventory) = 3
    /\ devices # <<>>
    /\ directshow_devices # <<>>
    /\ \A i \in Indices(inventory) : ~Real(inventory[i])
    /\ result = "VirtualCamera"

\* C10: detect_cameras returns NoCamera exactly when the merged inventory is empty,
\* and never returns through the else arm that follows the loop.
C10_NoCameraIffEmpty ==
    Returned =>
        /\ (result = "NoCamera") <=> (inventory = <<>>)
        /\ branch # "else"
        /\ inventory # <<>> => result \in {"RealCamera", "VirtualCamera"}

\* both Windows backends ran, neither produced a record, the call returned NoCamera
\* through the is_empty test
C10_Witness ==
    /\ Returned
    /\ platform = "windows"
    /\ "CoInitializeEx ok" \in {mfCalls[i] : i \in Indices(mfCalls)}
    /\ "CoInitializeEx ok" \in {dsCalls[i] : i \in Indices(dsCalls)}
    /\ inventory = <<>>
    /\ branch = "is_empty"
    /\ result = "NoCamera"

\* C6 (merger concatenation order): the inventory is the records of the Media
\* Foundation backend in their order followed by the records of the DirectShow
\* backend in their order, each record as the backend built it, nothing dropped
\* or added; without a backend (not Windows) the inventory is empty.
C6_ConcatenationOrder ==
    Merged =>
        IF platform = "windows"
        THEN /\ Len(inventory) = Len(devices) + Len(directshow_devices)
             /\ \A i \in Indices(devices) : inventory[i] = devices[i]
             /\ \A j \in Indices(directshow_devices) :
                    inventory[Len(devices) + j] = directshow_devices[j]
        ELSE inventory = <<>>

\* both backends reported two records, the Media Foundation backend the same record
\* twice, and the DirectShow backend reported that very record again
C6_Witness ==
    /\ Merged
    /\ Len(devices) = 2
    /\ Len(directshow_devices) = 2
    /\ devices[1] = devices[2]
    /\ directshow_devices[1] # directshow_devices[2]
    /\ directshow_devices[2] = devices[1]
    /\ Len(inventory) = 4

\* C7 (backend failure absorption), as claimed: a backend in which any API call
\* failed contributes an empty list, and the other backend still runs.
C7_FailureAbsorbed ==
    /\ (MFReturned /\ mfErr # {}) => devices = <<>>
    /\ (DSReturned /\ dsErr # {}) => directshow_devices = <<>>
    /\ (Returned /\ platform = "windows") => (mfCalls # <<>> /\ dsCalls # <<>>)

Produced ==
    {devices[i] : i \in Indices(devices)}
        \cup {directshow_devices[i] : i \in Indices(directshow_devices)}
        \cup {inventory[i] : i \in Indices(inventory)}

Occurrences(calls, call) == Cardinality({i \in Indices(calls) : calls[i] = call})
Position(calls, call) == CHOOSE i \in Indices(calls) : calls[i] = call

\* one backend call's log: every successful initialization torn down exactly once,
\* after it was made, Media Foundation before COM, nothing torn down that failed
Scoped(calls) ==
    /\ Occurrences(calls, "CoInitializeEx ok") + Occurrences(calls, "CoInitializeEx err") = 1
    /\ Occurrences(calls, "CoUninitialize") = Occurrences(calls, "CoInitializeEx ok")
    /\ Occurrences(calls, "MFShutdown") = Occurrences(calls, "MFStartup ok")
    /\ Occurrences(calls, "MFStartup ok") <= 1
    /\ Occurrences(calls, "CoUninitialize") = 1 =>
           Position(calls, "CoInitializeEx ok") < Position(calls, "CoUninitialize")
    /\ Occurrences(calls, "MFShutdown") = 1 =>
           /\ Position(calls, "MFStartup ok") < Position(calls, "MFShutdown")
           /\ Position(calls, "MFShutdown") < Position(calls, "CoUninitialize")

\* C9 (scoped resource release): when a backend call has returned, on whatever
\* path, its successful CoInitializeEx and MFStartup have each been undone once,
\* MFShutdown before CoUninitialize, no teardown follows a failed initialization,
\* and as many initializations are outstanding as before the call.
C9_ScopedRelease ==
    /\ (platform = "windows" /\ MFReturned) => Scoped(mfCalls)
    /\ (platform = "windows" /\ DSReturned) => Scoped(dsCalls)
    /\ (pc = "ds_CoInitializeEx" \/ DSReturned) => (com = before.com /\ mf = before.mf)

\* the Media Foundation backend left through the SetGUID early return and the
\* DirectShow backend through the CreateClassEnumerator early return, in a host
\* that already held an initialization
C9_Witness ==
    /\ Returned
    /\ before.com = 1
    /\ mfErr = {"SetGUID"}
    /\ dsErr = {"CreateClassEnumerator"}
    /\ mfCalls = <<"CoInitializeEx ok", "MFStartup ok", "MFShutdown", "CoUninitialize">>
    /\ dsCalls = <<"CoInitializeEx ok", "CoUninitialize">>

\* C3 (totality), as claimed: whatever the backends do, the call terminates and
\* returns one of the three verdicts.
C3_Totality == <>(Returned /\ result \in DetectionResult)

\* C3, amended: the call returns one of the three verdicts whenever it returns, and
\* it does return unless the DirectShow enumerator hands out monikers without end.
C3_TotalUnlessUnending ==
    /\ []((Returned => result \in DetectionResult)
            /\ (~Returned => result = "pending"))
    /\ ([](stream # Unending) => <>Returned)

\* a call that returned after the DirectShow enumerator ran dry behind one record
\* and one skipped moniker
C3_Witness ==
    /\ Returned
    /\ result \in DetectionResult
    /\ Len(directshow_devices) = 1
    /\ "BindToStorage" \in dsErr
    /\ stream = 0

-----------------------------------------------------------------------------
(* parse_vid_pid on its own *)

\* the variables of one call of detect_cameras, unused by the two specifications
\* of the pure functions
PipelineIdle ==
    /\ platform = "other"
    /\ com = 0
    /\ mf = 0
    /\ before = [com |-> 0, mf |-> 0]
    /\ mfCalls = <<>>
    /\ dsCalls = <<>>
    /\ mfErr = {}
    /\ dsErr = {}
    /\ devices = <<>>
    /\ directshow_devices = <<>>
    /\ inventory = <<>>
    /\ count = 0
    /\ index = 0
    /\ stream = 0
    /\ result = "pending"
    /\ branch = "none"

pre_usb == <<"u", "s", "b", "#">>
pre_accent == <<"é", "#">>
occ_vid_upper == <<"V", "I", "D", "_">>
occ_pid_mixed == <<"P", "i", "d", "_">>
occ_vid_broken == <<"v", "i", "d", "-">>
post_short_pid == <<"&", "p", "i", "d", "_", "b", "5">>
post_vid == <<"&", "V", "I", "D", "_", "9", "9", "9", "9">>

\* the characters that follow a token: a digit, an upper-case hex digit, a letter
\* of two bytes
TailChars == {"0", "F", "é"}

\* every string over TailChars of at most MaxTail characters
Tails == UNION {[1..k -> TailChars] : k \in 0..MaxTail}

\* device paths: a prefix, one spelling of a token (or none), what follows it, and
\* a suffix that may hold a further token
DevicePaths ==
    {pre \o occ \o tail \o post :
        pre \in {<<>>, pre_usb, pre_accent},
        occ \in {tok_vid, occ_vid_upper, tok_pid, occ_pid_mixed, occ_vid_broken, <<>>},
        tail \in Tails,
        post \in {<<>>, post_short_pid, post_vid}}

InitExtract ==
    /\ pc = "call"
    /\ device_path \in {None} \cup {Some(path) : path \in DevicePaths}
    /\ vid_pid = <<None, None>>
    /\ device = NoDevice
    /\ is_virtual = FALSE
    /\ PipelineIdle

\* one call of parse_vid_pid
ParseVidPid ==
    /\ pc = "call"
    /\ vid_pid' = parse_vid_pid(device_path)
    /\ pc' = "returned"
    /\ UNCHANGED <<platform, com, mf, before, mfCalls, dsCalls, mfErr, dsErr, devices,
                   directshow_devices, inventory, count, index, stream, result, branch,
                   device_path, device, is_virtual>>

SpecExtract == InitExtract /\ [][ParseVidPid]_vars

\* what C5 says the extractor returns for one token: the four characters behind the
\* first occurrence of the token when at least four characters follow it, else None
ClaimedSegment(source, token) ==
    IF \A i \in 0..Len(source) : ~MatchAt(source, token, i)
    THEN None
    ELSE LET first == CHOOSE i \in 0..Len(source) :
                          /\ MatchAt(source, token, i)
                          /\ \A k \in 0..(i - 1) : ~MatchAt(source, token, k)
             behind == first + Len(token)
         IN  IF Len(source) - behind >= 4
             THEN Some(SubSeq(source, behind + 1, behind + 4))
             ELSE None

\* C5 (identifier extraction), as claimed: for each of the tokens vid_ and pid_
\* parse_vid_pid returns the four characters behind the first occurrence of the
\* token in the lower-cased path when at least four characters follow, None when
\* the token is missing or fewer follow, whatever the characters are; an absent
\* path yields (None, None).
C5_Extraction ==
    pc = "returned" =>
        IF device_path = None
        THEN vid_pid = <<None, None>>
        ELSE \E lower \in {to_lowercase(Unwrap(device_path))} :
                 vid_pid = <<ClaimedSegment(lower, tok_vid), ClaimedSegment(lower, tok_pid)>>

-----------------------------------------------------------------------------
(* is_virtual_camera on its own *)

\* device records over the sample strings, each field on its own
DeviceRecords ==
    {CameraDevice(name, manufacturer, path, driver, vid, pid, clsid) :
        name \in {n_brio, n_obs_mixed, n_obs_lower, n_manycam, n_cam_o, n_web, n_snap},
        manufacturer \in {None, Some(m_microsoft), Some(m_camera_inc), Some(m_cam)},
        path \in {None, Some(p_brio), Some(p_slink), Some(p_vendor_only)},
        driver \in {None, Some(d_usbvideo), Some(d_sip), Some(d_b)},
        vid \in {None, Some(i_0bda_upper), Some(i_0c45), Some(i_1234)},
        pid \in {None, Some(i_58f4), Some(i_6366), Some(i_0000)},
        clsid \in {None, Some(c_category_upper), Some(c_grabber_prefixed), Some(c_other)}}

InitClassify ==
    /\ pc = "call"
    /\ device \in DeviceRecords
    /\ is_virtual = FALSE
    /\ device_path = None
    /\ vid_pid = <<None, None>>
    /\ PipelineIdle

\* one call of is_virtual_camera
IsVirtualCamera ==
    /\ pc = "call"
    /\ is_virtual' = is_virtual_camera(device)
    /\ pc' = "returned"
    /\ UNCHANGED <<platform, com, mf, before, mfCalls, dsCalls, mfErr, dsErr, devices,
                   directshow_devices, inventory, count, index, stream, result, branch,
                   device_path, vid_pid, device>>

SpecClassify == InitClassify /\ [][IsVirtualCamera]_vars

\* s occurs in h as a substring
Occurs(s, h) == \E i \in 1..(Len(h) - Len(s) + 1) : SubSeq(h, i, i + Len(s) - 1) = s

OrEmpty(o) == IF o = None THEN <<>> ELSE Unwrap(o)

\* the three layers as C4 words them
ClaimedNameLayer(d) ==
    \E joined \in {to_lowercase(d.name \o OrEmpty(d.manufacturer) \o OrEmpty(d.driver)
                                  \o OrEmpty(d.device_path))} :
        \E needle \in Range(name_blacklist) : Occurs(needle, joined)

ClaimedClassLayer(d) ==
    /\ d.clsid # None
    /\ \E needle \in Range(clsid_blacklist) : Occurs(needle, to_lowercase(Unwrap(d.clsid)))

ClaimedPairLayer(d) ==
    /\ d.vid # None
    /\ d.pid # None
    /\ <<to_lowercase(Unwrap(d.vid)), to_lowercase(Unwrap(d.pid))>> \in Range(vid_pid_blacklist)

\* char::to_uppercase on the letters of UpperChars
char_to_uppercase(c) ==
    IF \E i \in 1..Len(LowerChars) : LowerChars[i] = c
    THEN UpperChars[CHOOSE i \in 1..Len(LowerChars) : LowerChars[i] = c]
    ELSE c

\* an optional string with f applied to every character
Recase(o, f(_)) ==
    IF o = None THEN None ELSE Some([i \in 1..Len(Unwrap(o)) |-> f(Unwrap(o)[i])])

\* the record with every field in the letter case f produces
Recased(d, f(_)) ==
    CameraDevice(Unwrap(Recase(Some(d.name), f)), Recase(d.manufacturer, f),
                 Recase(d.device_path, f), Recase(d.driver, f),
                 Recase(d.vid, f), Recase(d.pid, f), Recase(d.clsid, f))

\* C4: is_virtual_camera returns TRUE exactly when the name layer, the class
\* identifier layer or the exact vendor/product pair layer matches, FALSE when none
\* does; the answer is the same for the record in lower case and in upper case,
\* and in whatever order the layers are asked.
C4_ThreeLayers ==
    pc = "returned" =>
        /\ is_virtual <=>
               (ClaimedNameLayer(device) \/ ClaimedClassLayer(device) \/ ClaimedPairLayer(device))
        /\ is_virtual = is_virtual_camera(Recased(device, char_to_lowercase))
        /\ is_virtual = is_virtual_camera(Recased(device, char_to_uppercase))
        /\ is_virtual = (vid_pid_layer(device) \/ clsid_layer(device) \/ name_layer(device))

\* a record only the pair layer catches, its vendor id in upper case, and whose
\* vendor id alone would not have been enough
C4_Witness ==
    /\ pc = "returned"
    /\ is_virtual
    /\ device.vid = Some(i_0bda_upper)
    /\ device.pid = Some(i_58f4)
    /\ ~ClaimedNameLayer(device)
    /\ ~ClaimedClassLayer(device)
    /\ ~is_virtual_camera([device EXCEPT !.pid = Some(i_0000)])
    /\ ~is_virtual_camera([device EXCEPT !.pid = None])

=============================================================================
